---- MODULE Spec2Model ----
(***************************************************************************)
(* Model of metro's DeltaBundler/traverseDependencies.js: the incremental  *)
(* dependency-graph traversal (initialTraverseDependencies,                *)
(* traverseDependencies, processModule, addDependency, removeDependency,   *)
(* reorderGraph).                                                          *)
(*                                                                         *)
(* Module objects live in a heap and are named by <<path, n>>: the n-th    *)
(* object created for that path since the pass began (the objects of the   *)
(* graph are renumbered to 0 when a pass starts).  graph.dependencies is   *)
(* the sequence of the objects it holds, in Map insertion order.  Each     *)
(* processModule call is a process named by the module object it works on; *)
(* it suspends at its transform call and at the Promise.all over the       *)
(* children it added.                                                      *)
(***************************************************************************)
EXTENDS Naturals, Sequences, FiniteSets

Paths == {"A", "B", "C", "D"}

\* A source file, as seen through the two collaborators: the specifiers
\* transform(path) reports, in declaration order, each paired with the
\* absolute path resolve(path, specifier) gives it.
Dep(rel, abs) == <<rel, abs>>

\* What options.resolve cannot map to a path: the call throws.
NotFound == "?"

\* A file that options.transform rejects.
Unparsable == <<Dep("SyntaxError", "SyntaxError")>>

\* The contents each file of the project may have.  "x" is a second
\* specifier for D in C (the same file imported under two names), and one
\* whose resolution can move from D to B.  B may import a specifier "m" that
\* does not resolve, or not parse at all.
Contents(p) ==
  CASE p = "A" -> { <<>>, <<Dep("b", "B")>>, <<Dep("b", "B"), Dep("c", "C")>>,
                    <<Dep("c", "C")>> }
    [] p = "B" -> { <<>>, <<Dep("d", "D")>>, <<Dep("a", "A")>>,
                    <<Dep("d", "D"), Dep("m", NotFound)>>, Unparsable }
    [] p = "C" -> { <<>>, <<Dep("d", "D")>>, <<Dep("d", "D"), Dep("x", "D")>>,
                    <<Dep("x", "D")>>, <<Dep("x", "B")>> }
    [] p = "D" -> { <<>>, <<Dep("b", "B")>> }

SourceTrees == { f \in [Paths -> UNION {Contents(p) : p \in Paths}] :
                   \A p \in Paths : f[p] \in Contents(p) }

EntryPointLists == { <<"A">>, <<"A", "B">> }

\* The most paths one traverseDependencies call is given.
MaxChanged == 2

\* The most warm passes after the cold start.
MaxPasses == 1

VARIABLES
  fs,            \* the source tree the collaborators read
  entryPoints,   \* graph.entryPoints
  heap,          \* the Module objects: object name -> record
  graph,         \* graph.dependencies: the objects it maps, in Map order
  delta,         \* the Delta of the running traverseDependencies call
  procs,         \* the suspended processModule calls
  counters,      \* numProcessed and total of each traverseDependenciesForSingleFile
  progress,      \* what the onProgress callbacks of the call have shown so far
  phase,         \* "new" | "cold" | "warm" | "idle" | "linearized" | "failed"
  paths,         \* the paths argument of the running call
  pre,           \* heap and graph when the running call began
  result,        \* what the last call returned
  passes,        \* the number of warm passes begun
  error          \* what the running call was rejected with, "none" if nothing

vars == <<fs, entryPoints, heap, graph, delta, procs, counters, progress,
          phase, paths, pre, result, passes, error>>

----------------------------------------------------------------------------
\* Helpers over sequences and Maps.

NoObj == <<"none", 0>>

Range(s) == { s[i] : i \in DOMAIN s }

\* Map.has / Map.get on a dependencies Map (a sequence of <<rel, abs>>).
Has(deps, rel) == \E i \in DOMAIN deps : deps[i][1] = rel

Values(deps) == [i \in DOMAIN deps |-> deps[i][2]]

RECURSIVE SeqWithout(_, _)
SeqWithout(s, path) ==
  IF s = <<>> THEN <<>>
  ELSE IF Head(s)[1] = path THEN SeqWithout(Tail(s), path)
       ELSE <<Head(s)>> \o SeqWithout(Tail(s), path)

\* graph.dependencies.get(path)
GraphGet(g, path) ==
  IF \E i \in DOMAIN g : g[i][1] = path
    THEN g[CHOOSE i \in DOMAIN g : g[i][1] = path]
    ELSE NoObj

GraphPaths(g) == { g[i][1] : i \in DOMAIN g }

\* The name of the next object created for path.
FreshObj(h, path) ==
  <<path, Cardinality({ o \in DOMAIN h : o[1] = path })>>

BlankOutput == [transformed |-> FALSE, source |-> <<>>]

EmptyDelta == [added    |-> [p \in Paths |-> NoObj],
               modified |-> [p \in Paths |-> NoObj],
               deleted  |-> {}]

NoProgress == [called |-> FALSE, last |-> <<0, 0>>,
               processedMonotone |-> TRUE, totalMonotone |-> TRUE,
               bounded |-> TRUE]

NoResult == [added |-> [p \in Paths |-> NoObj], deleted |-> {}]

----------------------------------------------------------------------------
\* The collaborators.

\* options.transform(path) rejects.
transformRejects(tree, path) == tree[path] = Unparsable

\* options.transform(path): the specifiers the file declares and its output.
transform(tree, path) ==
  [dependencies |-> [i \in DOMAIN tree[path] |-> tree[path][i][1]],
   output       |-> [transformed |-> TRUE, source |-> tree[path]]]

\* options.resolve(from, to)
resolve(tree, from, to) ==
  LET c == tree[from]
  IN  c[CHOOSE i \in DOMAIN c : c[i][1] = to][2]

\* new Map(pairs): a key keeps the place of its first pair and the value of
\* its last one.
RECURSIVE MapOf(_)
MapOf(pairs) ==
  IF pairs = <<>> THEN <<>>
  ELSE LET init == MapOf(SubSeq(pairs, 1, Len(pairs) - 1))
           kv   == pairs[Len(pairs)]
       IN  IF Has(init, kv[1])
             THEN [i \in DOMAIN init |->
                     IF init[i][1] = kv[1] THEN kv ELSE init[i]]
             ELSE Append(init, kv)

\* One of the options.resolve calls of resolveDependencies throws.
resolveThrows(tree, parentPath, dependencies) ==
  \E i \in DOMAIN dependencies :
    resolve(tree, parentPath, dependencies[i]) = NotFound

resolveDependencies(tree, parentPath, dependencies) ==
  MapOf([i \in DOMAIN dependencies |->
           <<dependencies[i], resolve(tree, parentPath, dependencies[i])>>])

----------------------------------------------------------------------------
\* The synchronous code, as operators on the record
\*   S = [heap, graph, delta, procs, counters, progress, overflow, error].

\* options.onProgress(numProcessed, total)
onProgress(pr, n, t) ==
  [called            |-> TRUE,
   last              |-> <<n, t>>,
   processedMonotone |-> pr.processedMonotone /\ (pr.called => n >= pr.last[1]),
   totalMonotone     |-> pr.totalMonotone /\ (pr.called => t >= pr.last[2]),
   bounded           |-> pr.bounded /\ n <= t]

\* Mutant of onDependencyAdd: the callback fires but total is not incremented
\* when the dependency is discovered.
onDependencyAdd_Uncounted(S, root) ==
  [S EXCEPT !.progress =
     onProgress(@, S.counters[root][1], S.counters[root][2])]

\* The closure passed as onDependencyAdd by traverseDependenciesForSingleFile.
onDependencyAdd(S, root) ==
  LET c == <<S.counters[root][1], S.counters[root][2] + 1>>
  IN  [S EXCEPT !.counters[root] = c,
                !.progress = onProgress(@, c[1], c[2])]

\* The closure passed as onDependencyAdded, and the tail of
\* traverseDependenciesForSingleFile.
onDependencyAdded(S, root) ==
  LET c == <<S.counters[root][1] + 1, S.counters[root][2]>>
  IN  [S EXCEPT !.counters[root] = c,
                !.progress = onProgress(@, c[1], c[2])]

\* graph.dependencies.set(path, module)
GraphSet(g, obj) ==
  IF \E i \in DOMAIN g : g[i][1] = obj[1]
    THEN [i \in DOMAIN g |-> IF g[i][1] = obj[1] THEN obj ELSE g[i]]
    ELSE Append(g, obj)

NewModule(filePath) ==
  [dependencies        |-> <<>>,
   inverseDependencies |-> {},
   path                |-> filePath,
   output              |-> BlankOutput]

\* createModule(filePath, graph); the object it makes is FreshObj(S.heap, filePath).
createModule(S, filePath) ==
  LET obj == FreshObj(S.heap, filePath)
  IN  [S EXCEPT !.heap  = [o \in DOMAIN S.heap \cup {obj} |->
                             IF o = obj THEN NewModule(filePath) ELSE S.heap[o]],
                !.graph = GraphSet(@, obj)]

\* removeDependency(parentModule, absolutePath, graph, delta).  stack holds the
\* paths whose removal is in progress further up the call stack: entering one
\* of them again past the size test recurses without end, which JavaScript
\* ends with a RangeError (overflow).
RECURSIVE removeDependency(_, _, _, _)
RECURSIVE removeDependencies(_, _, _, _)
removeDependency(S, parentPath, absolutePath, stack) ==
  LET module == GraphGet(S.graph, absolutePath)
  IN  IF S.overflow \/ module = NoObj THEN S
      ELSE
        LET inv == S.heap[module].inverseDependencies \ {parentPath}
            S1  == [S EXCEPT !.heap[module].inverseDependencies = inv]
        IN  IF inv # {} THEN S1
            ELSE IF absolutePath \in stack THEN [S1 EXCEPT !.overflow = TRUE]
            ELSE
              LET S2 == [S1 EXCEPT !.delta.deleted = @ \cup {S1.heap[module].path}]
                  S3 == removeDependencies(S2, S2.heap[module].path,
                                           Values(S2.heap[module].dependencies),
                                           stack \cup {absolutePath})
              IN  IF S3.overflow THEN S3
                  ELSE [S3 EXCEPT !.graph = SeqWithout(@, S3.heap[module].path)]

\* The loop over module.dependencies.values() in removeDependency.
removeDependencies(S, parentPath, absolutePaths, stack) ==
  IF absolutePaths = <<>> THEN S
  ELSE removeDependencies(
         removeDependency(S, parentPath, Head(absolutePaths), stack),
         parentPath, Tail(absolutePaths), stack)

\* Mutant of addDependency: a new module is created and recorded but its own
\* dependencies are never traversed.
addDependency_Shallow(S, parent, path) ==
  LET existingModule == GraphGet(S.graph, path)
      parentPath     == S.heap[parent].path
  IN  IF existingModule # NoObj
        THEN [S EXCEPT !.heap[existingModule].inverseDependencies =
                          @ \cup {parentPath}]
        ELSE
          LET module == FreshObj(S.heap, path)
              S1 == createModule(S, path)
          IN  [S1 EXCEPT !.heap[module].inverseDependencies =
                            @ \cup {parentPath},
                         !.delta.added[path] = module]

\* Mutant of addDependency: a module already in the graph is processed
\* again when it gains a referrer.
addDependency_Retransform(S, parent, path) ==
  LET existingModule == GraphGet(S.graph, path)
      parentPath     == S.heap[parent].path
      module == IF existingModule # NoObj THEN existingModule
                ELSE FreshObj(S.heap, path)
      S1 == IF existingModule # NoObj THEN S ELSE createModule(S, path)
      S2 == [S1 EXCEPT !.heap[module].inverseDependencies =
                          @ \cup {parentPath},
                       !.delta.added[path] =
                          IF existingModule # NoObj THEN @ ELSE module]
      S3 == onDependencyAdd(S2, S.procs[parent].root)
  IN  [S3 EXCEPT !.procs =
         [o \in DOMAIN S3.procs \cup {module} |->
            IF o = module /\ o \notin DOMAIN S3.procs
              THEN [pc     |-> "transform",
                    parent |-> parent,
                    root   |-> S.procs[parent].root,
                    prev   |-> S2.heap[module].dependencies]
              ELSE S3.procs[o]]]

\* Mutant of addDependency: a new module is created without its parent among
\* its inverseDependencies.
addDependency_NoReferrer(S, parent, path) ==
  LET existingModule == GraphGet(S.graph, path)
      parentPath     == S.heap[parent].path
  IN  IF existingModule # NoObj
        THEN [S EXCEPT !.heap[existingModule].inverseDependencies =
                          @ \cup {parentPath}]
        ELSE
          LET module == FreshObj(S.heap, path)
              S1 == createModule(S, path)
              S2 == [S1 EXCEPT !.delta.added[path] = module]
              S3 == onDependencyAdd(S2, S.procs[parent].root)
          IN  [S3 EXCEPT !.procs =
                 [o \in DOMAIN S3.procs \cup {module} |->
                    IF o = module
                      THEN [pc     |-> "transform",
                            parent |-> parent,
                            root   |-> S.procs[parent].root,
                            prev   |-> <<>>]
                      ELSE S3.procs[o]]]

\* addDependency(parentModule, path, ...) up to its first suspension: an
\* existing module gains the referrer; a new one is created, recorded as
\* added, counted, and its processModule call is suspended at transform.
addDependency(S, parent, path) ==
  LET existingModule == GraphGet(S.graph, path)
      parentPath     == S.heap[parent].path
  IN  IF existingModule # NoObj
        THEN [S EXCEPT !.heap[existingModule].inverseDependencies =
                          @ \cup {parentPath}]
        ELSE
          LET module == FreshObj(S.heap, path)
              S1 == createModule(S, path)
              S2 == [S1 EXCEPT !.heap[module].inverseDependencies =
                                  @ \cup {parentPath},
                               !.delta.added[path] = module]
              S3 == onDependencyAdd(S2, S.procs[parent].root)
          IN  [S3 EXCEPT !.procs =
                 [o \in DOMAIN S3.procs \cup {module} |->
                    IF o = module
                      THEN [pc     |-> "transform",
                            parent |-> parent,
                            root   |-> S.procs[parent].root,
                            prev   |-> <<>>]
                      ELSE S3.procs[o]]]

\* processModule's loop over previousDependencies (lines 206-210).
RECURSIVE removeDropped(_, _, _, _)
removeDropped(S, module, previous, current) ==
  IF previous = <<>> THEN S
  ELSE LET S1 == IF Has(current, Head(previous)[1]) THEN S
                 ELSE removeDependency(S, S.heap[module].path,
                                       Head(previous)[2], {})
       IN  removeDropped(S1, module, Tail(previous), current)

\* processModule's map over currentDependencies (lines 215-233), each
\* addDependency call run up to its first suspension.
RECURSIVE addNew(_, _, _, _)
addNew(S, module, previous, current) ==
  IF current = <<>> THEN S
  ELSE LET S1 == IF Has(previous, Head(current)[1]) THEN S
                 ELSE addDependency(S, module, Head(current)[2])
       IN  addNew(S1, module, previous, Tail(current))

\* Mutant of processModule: module.output is assigned before the
\* dependencies are resolved.
processModule_OutputFirst(S, tree, module) ==
  LET previousDependencies == S.procs[module].prev
      path   == S.heap[module].path
      res    == transform(tree, path)
      currentDependencies ==
        resolveDependencies(tree, path, res.dependencies)
      S1 == [S EXCEPT !.heap[module].output = res.output,
                      !.heap[module].dependencies = currentDependencies]
      S2 == removeDropped(S1, module, previousDependencies, currentDependencies)
  IN  IF transformRejects(tree, path) THEN [S EXCEPT !.error = "transform"]
      ELSE IF resolveThrows(tree, path, res.dependencies)
        THEN [S EXCEPT !.heap[module].output = res.output,
                       !.error = "resolve"]
      ELSE IF S2.overflow THEN S2
      ELSE [addNew(S2, module, previousDependencies, currentDependencies)
              EXCEPT !.procs[module].pc = "await"]

\* processModule from the completion of its transform call to its
\* await Promise.all, or to the exception that rejects it: the rejection of
\* transform, or what resolve throws (lines 188-196), before the module is
\* touched.
processModule(S, tree, module) ==
  LET previousDependencies == S.procs[module].prev
      path   == S.heap[module].path
      res    == transform(tree, path)
      currentDependencies ==
        resolveDependencies(tree, path, res.dependencies)
      S1 == [S EXCEPT !.heap[module].output = res.output,
                      !.heap[module].dependencies = currentDependencies]
      S2 == removeDropped(S1, module, previousDependencies, currentDependencies)
  IN  IF transformRejects(tree, path) THEN [S EXCEPT !.error = "transform"]
      ELSE IF resolveThrows(tree, path, res.dependencies)
        THEN [S EXCEPT !.error = "resolve"]
      ELSE IF S2.overflow THEN S2
      ELSE [addNew(S2, module, previousDependencies, currentDependencies)
              EXCEPT !.procs[module].pc = "await"]

\* Mutant of traverseDependenciesForSingleFile: a changed path that has no
\* record is given one and traversed like the others.
traverseDependenciesForSingleFile_CreateMissing(S, path) ==
  LET S0     == IF GraphGet(S.graph, path) = NoObj THEN createModule(S, path)
                ELSE S
      module == GraphGet(S0.graph, path)
  IN  [S0 EXCEPT
         !.delta.modified[S0.heap[module].path] = module,
         !.counters = [o \in DOMAIN S0.counters \cup {module} |->
                         IF o = module THEN <<0, 1>> ELSE S0.counters[o]],
         !.progress = onProgress(@, 0, 1),
         !.procs = [o \in DOMAIN S0.procs \cup {module} |->
                      IF o = module
                        THEN [pc     |-> "transform",
                              parent |-> NoObj,
                              root   |-> module,
                              prev   |-> S0.heap[module].dependencies]
                        ELSE S0.procs[o]]]

\* One callback of paths.map in traverseDependencies (lines 87-97), up to the
\* suspension of processModule at transform.
traverseDependenciesForSingleFile(S, path) ==
  LET module == GraphGet(S.graph, path)
  IN  IF module = NoObj THEN S
      ELSE [S EXCEPT
              !.delta.modified[S.heap[module].path] = module,
              !.counters = [o \in DOMAIN S.counters \cup {module} |->
                              IF o = module THEN <<0, 1>> ELSE S.counters[o]],
              !.progress = onProgress(@, 0, 1),
              !.procs = [o \in DOMAIN S.procs \cup {module} |->
                           IF o = module
                             THEN [pc     |-> "transform",
                                   parent |-> NoObj,
                                   root   |-> module,
                                   prev   |-> S.heap[module].dependencies]
                             ELSE S.procs[o]]]

\* traverseDependencies up to its await Promise.all (lines 80-98).
RECURSIVE traverseDependencies(_, _)
traverseDependencies(S, pathList) ==
  IF pathList = <<>> THEN S
  ELSE traverseDependencies(
         traverseDependenciesForSingleFile(S, Head(pathList)), Tail(pathList))

\* Mutant of Reconcile: a path both added and deleted is still reported
\* deleted.
Reconcile_NoCancel(d) ==
  LET added == [p \in Paths |->
                  IF d.modified[p] # NoObj THEN d.modified[p] ELSE d.added[p]]
  IN  [added   |-> [p \in Paths |->
                      IF p \in d.deleted THEN NoObj ELSE added[p]],
       deleted |-> d.deleted]

\* Mutant of Reconcile: a deleted traversal root is left in added.
Reconcile_KeepModified(d) ==
  LET added == [p \in Paths |->
                  IF d.modified[p] # NoObj THEN d.modified[p] ELSE d.added[p]]
  IN  [added   |-> [p \in Paths |->
                      IF p \in d.deleted /\ d.modified[p] = NoObj
                        THEN NoObj ELSE added[p]],
       deleted |-> { p \in d.deleted :
                       added[p] = NoObj \/ d.modified[p] # NoObj }]

\* traverseDependencies after its await (lines 100-130): the Result.
Reconcile(d) ==
  LET added == [p \in Paths |->
                  IF d.modified[p] # NoObj THEN d.modified[p] ELSE d.added[p]]
  IN  [added   |-> [p \in Paths |->
                      IF p \in d.deleted THEN NoObj ELSE added[p]],
       deleted |-> { p \in d.deleted :
                       added[p] = NoObj \/ d.modified[p] # NoObj }]

\* reorderDependencies(module, dependencies, orderedDependencies) for a
\* Module, and its forEach over the module's dependencies.
RECURSIVE reorderDependencies(_, _, _, _)
RECURSIVE reorderEach(_, _, _, _)
reorderDependencies(h, module, dependencies, orderedDependencies) ==
  IF \E i \in DOMAIN orderedDependencies :
       orderedDependencies[i][1] = h[module].path
    THEN orderedDependencies
    ELSE reorderEach(h, Values(h[module].dependencies), dependencies,
                     Append(orderedDependencies, module))

reorderEach(h, pathList, dependencies, orderedDependencies) ==
  IF pathList = <<>> THEN orderedDependencies
  ELSE LET dep == GraphGet(dependencies, Head(pathList))
           o1  == IF dep = NoObj THEN orderedDependencies
                  ELSE reorderDependencies(h, dep, dependencies,
                                           orderedDependencies)
       IN  reorderEach(h, Tail(pathList), dependencies, o1)

\* Mutant of reorderGraph: the Map keeps its insertion order.
reorderGraph_Unordered(h, g, entries) == g

\* reorderGraph(graph): the new graph.dependencies.
reorderGraph(h, g, entries) ==
  reorderEach(h, Values(MapOf([i \in DOMAIN entries |->
                                  <<entries[i], entries[i]>>])), g, <<>>)

\* graph.entryPoints.forEach(entryPoint => createModule(entryPoint, graph))
RECURSIVE createModules(_, _)
createModules(S, entries) ==
  IF entries = <<>> THEN S
  ELSE createModules(createModule(S, Head(entries)), Tail(entries))

----------------------------------------------------------------------------
\* The state machine.

Cur == [heap |-> heap, graph |-> graph, delta |-> delta, procs |-> procs,
        counters |-> counters, progress |-> progress, overflow |-> FALSE,
        error |-> "none"]

Empty == [o \in {} |-> NoObj]

Running == phase \in {"cold", "warm"}

\* The paths a caller hands to one traverseDependencies call, each subset in
\* one order.
PathOrder == <<"A", "B", "C", "D">>

RECURSIVE ListOf(_, _)
ListOf(set, order) ==
  IF order = <<>> THEN <<>>
  ELSE IF Head(order) \in set THEN <<Head(order)>> \o ListOf(set, Tail(order))
       ELSE ListOf(set, Tail(order))

ChangedLists == { ListOf(s, PathOrder) :
                    s \in { t \in SUBSET Paths : Cardinality(t) <= MaxChanged } }

\* When a call begins nothing of the previous one is live: the objects of
\* the graph are renumbered to 0 and the others forgotten.
Settled(h, g) ==
  [heap  |-> [o \in { <<g[i][1], 0>> : i \in DOMAIN g } |->
                h[GraphGet(g, o[1])]],
   graph |-> [i \in DOMAIN g |-> <<g[i][1], 0>>]]

Init ==
  /\ fs \in SourceTrees
  /\ entryPoints \in EntryPointLists
  /\ heap = Empty
  /\ graph = <<>>
  /\ delta = EmptyDelta
  /\ procs = Empty
  /\ counters = Empty
  /\ progress = NoProgress
  /\ phase = "new"
  /\ paths = <<>>
  /\ pre = [heap |-> Empty, graph |-> <<>>]
  /\ result = NoResult
  /\ passes = 0
  /\ error = "none"

\* initialTraverseDependencies up to the await of traverseDependencies.
ColdStart ==
  /\ phase = "new"
  /\ LET S == traverseDependencies(createModules(Cur, entryPoints), entryPoints)
     IN  /\ heap' = S.heap
         /\ graph' = S.graph
         /\ delta' = S.delta
         /\ procs' = S.procs
         /\ counters' = S.counters
         /\ progress' = S.progress
  /\ phase' = "cold"
  /\ paths' = entryPoints
  /\ pre' = [heap |-> heap, graph |-> graph]
  /\ UNCHANGED <<fs, entryPoints, result, passes, error>>

\* The source trees that differ from tree in the files of pathList at most.
TreesAfter(tree, pathList) ==
  LET changed == Range(pathList)
      edits   == { c \in [changed -> UNION { Contents(p) : p \in changed }] :
                     \A p \in changed : c[p] \in Contents(p) }
  IN  { [p \in Paths |-> IF p \in changed THEN c[p] ELSE tree[p]] :
          c \in edits }

\* The files named by pathList change on disk (or are only touched) and the
\* caller calls traverseDependencies(pathList, graph, options).
Traverse ==
  /\ phase \in {"idle", "linearized"}
  /\ passes < MaxPasses
  /\ \E pathList \in ChangedLists :
       \E tree \in TreesAfter(fs, pathList) :
         LET s0 == Settled(heap, graph)
             S  == traverseDependencies(
                     [heap |-> s0.heap, graph |-> s0.graph,
                      delta |-> EmptyDelta, procs |-> Empty,
                      counters |-> Empty, progress |-> NoProgress,
                      overflow |-> FALSE, error |-> "none"], pathList)
         IN  /\ heap' = S.heap
             /\ graph' = S.graph
             /\ delta' = S.delta
             /\ procs' = S.procs
             /\ counters' = S.counters
             /\ progress' = S.progress
             /\ pre' = s0
             /\ fs' = tree
             /\ paths' = pathList
  /\ phase' = "warm"
  /\ result' = NoResult
  /\ passes' = passes + 1
  /\ UNCHANGED <<entryPoints, error>>

\* The processModule calls that are waiting, directly or not, for module.
RECURSIVE Ancestors(_, _)
Ancestors(ps, module) ==
  IF module \notin DOMAIN ps \/ ps[module].parent = NoObj THEN {}
  ELSE {ps[module].parent} \cup Ancestors(ps, ps[module].parent)

\* The transform of module settles and processModule runs on to its
\* Promise.all.  A rejected transform, an exception of resolve or a RangeError
\* thrown by removeDependency rejects the call and every call awaiting it,
\* and with them the traverseDependencies call; the other suspended calls
\* stay suspended and go on when their transforms settle.
TransformDone(module) ==
  /\ phase \in {"cold", "warm", "failed"}
  /\ module \in DOMAIN procs
  /\ procs[module].pc = "transform"
  /\ LET S == processModule(Cur, fs, module)
         thrown == IF S.overflow THEN "RangeError" ELSE S.error
         gone == IF thrown # "none"
                   THEN {module} \cup Ancestors(S.procs, module)
                   ELSE {}
     IN  /\ heap' = S.heap
         /\ graph' = S.graph
         /\ delta' = S.delta
         /\ procs' = [o \in DOMAIN S.procs \ gone |-> S.procs[o]]
         /\ counters' = S.counters
         /\ progress' = S.progress
         /\ phase' = IF thrown # "none" THEN "failed" ELSE phase
         /\ error' = IF error = "none" THEN thrown ELSE error
  /\ UNCHANGED <<fs, entryPoints, paths, pre, result, passes>>

\* The Promise.all of module's processModule call resolves: addDependency
\* (line 270) or traverseDependenciesForSingleFile (lines 174-175) counts it.
Finish(module) ==
  /\ phase \in {"cold", "warm", "failed"}
  /\ module \in DOMAIN procs
  /\ procs[module].pc = "await"
  /\ \A o \in DOMAIN procs : procs[o].parent # module
  /\ LET S == onDependencyAdded(Cur, procs[module].root)
     IN  /\ counters' = S.counters
         /\ progress' = S.progress
  /\ procs' = [o \in DOMAIN procs \ {module} |-> procs[o]]
  /\ UNCHANGED <<fs, entryPoints, heap, graph, delta, phase, paths, pre,
                 result, passes, error>>

\* The Promise.all of traverseDependencies resolves: the call returns its
\* Result; initialTraverseDependencies reorders the graph and returns all of it.
Return ==
  /\ Running
  /\ DOMAIN procs = {}
  /\ IF phase = "cold"
       THEN LET g == reorderGraph(heap, graph, entryPoints)
            IN  /\ graph' = g
                /\ result' = [added   |-> [p \in Paths |-> GraphGet(g, p)],
                              deleted |-> {}]
       ELSE /\ graph' = graph
            /\ result' = Reconcile(delta)
  /\ phase' = "idle"
  /\ UNCHANGED <<fs, entryPoints, heap, delta, procs, counters, progress,
                 paths, pre, passes, error>>

\* The caller calls reorderGraph(graph) on the graph a call has returned.
Linearize ==
  /\ phase = "idle"
  /\ graph' = reorderGraph(heap, graph, entryPoints)
  /\ phase' = "linearized"
  /\ UNCHANGED <<fs, entryPoints, heap, delta, procs, counters, progress,
                 paths, pre, result, passes, error>>

Next ==
  \/ ColdStart
  \/ Traverse
  \/ \E module \in DOMAIN procs : TransformDone(module)
  \/ \E module \in DOMAIN procs : Finish(module)
  \/ Return
  \/ Linearize

Spec == Init /\ [][Next]_vars

----------------------------------------------------------------------------
\* What the claims speak of.

\* A call has returned its Result: the cold start, or a warm pass.
ColdDone == phase = "idle" /\ passes = 0
WarmDone == phase = "idle" /\ passes > 0

\* The record graph.dependencies holds for path.
Module(h, g, path) == h[GraphGet(g, path)]

\* The paths a module record imports.
Imports(m) == Range(Values(m.dependencies))

\* The modules of the graph that import path.
Importers(h, g, path) ==
  { q \in GraphPaths(g) : path \in Imports(Module(h, g, q)) }

\* The content of a graph: its paths, and the edges of each.
Content(h, g) ==
  [p \in GraphPaths(g) |->
     [dependencies        |-> Module(h, g, p).dependencies,
      inverseDependencies |-> Module(h, g, p).inverseDependencies]]

\* The modules the running (or last) call re-processed as traversal roots.
Modified == { p \in Paths : delta.modified[p] # NoObj }

\* The modules addDependency created during the call.
Added == { p \in Paths : delta.added[p] # NoObj }

\* The graph as it was when the call began.
PreGraph == GraphPaths(pre.graph)
PreModule(path) == Module(pre.heap, pre.graph, path)

----------------------------------------------------------------------------
\* C1 (referrer retention): when a warm pass has returned, for every
\* re-processed module B that imported D before the pass and no longer does,
\* and every other module C of the graph that imported D before and still
\* does, D is in the graph, is not reported deleted, and its
\* inverseDependencies is exactly the set of the modules of the graph that
\* import it.
C1_ReferrerRetention ==
  WarmDone =>
    \A B \in Modified, D \in Paths, C \in Paths :
      ( /\ D \in Imports(PreModule(B))
        /\ D \notin Imports(heap[delta.modified[B]])
        /\ C # B
        /\ C \in PreGraph
        /\ D \in Imports(PreModule(C))
        /\ C \in GraphPaths(graph)
        /\ D \in Imports(Module(heap, graph, C)) )
      => /\ D \in GraphPaths(graph)
         /\ D \notin result.deleted
         /\ Module(heap, graph, D).inverseDependencies
              = Importers(heap, graph, D)

\* C2 (cascading deletion): when a warm pass has returned, every module D
\* that a module of the graph imported before the pass and that no module of
\* the graph imports any more is out of the graph and reported deleted; and
\* every dependency X that D had is out of the graph and reported deleted if
\* no module of the graph imports it, and otherwise is in the graph without
\* D among its inverseDependencies.
LostAllReferrers(D) ==
  /\ D \in PreGraph
  /\ Importers(pre.heap, pre.graph, D) # {}
  /\ Importers(heap, graph, D) = {}

C2_CascadingDeletion ==
  WarmDone =>
    \A D \in Paths :
      LostAllReferrers(D) =>
        /\ D \notin GraphPaths(graph)
        /\ D \in result.deleted
        /\ \A X \in Imports(PreModule(D)) :
             IF Importers(heap, graph, X) = {}
               THEN X \notin GraphPaths(graph) /\ X \in result.deleted
               ELSE /\ X \in GraphPaths(graph)
                    /\ D \notin Module(heap, graph, X).inverseDependencies

\* One schedule of a call: from the state in which the call began, the
\* suspended transforms complete one at a time in a fixed order.
RECURSIVE RunTransforms(_, _)
RunTransforms(S, tree) ==
  IF \/ S.overflow
     \/ S.error # "none"
     \/ \A m \in DOMAIN S.procs : S.procs[m].pc # "transform" THEN S
  ELSE RunTransforms(
         processModule(S, tree, CHOOSE m \in DOMAIN S.procs :
                                   S.procs[m].pc = "transform"), tree)

CallStart ==
  LET base == [heap |-> pre.heap, graph |-> pre.graph, delta |-> EmptyDelta,
               procs |-> Empty, counters |-> Empty, progress |-> NoProgress,
               overflow |-> FALSE, error |-> "none"]
  IN  traverseDependencies(
        IF passes = 0 THEN createModules(base, entryPoints) ELSE base, paths)

OneSchedule == RunTransforms(CallStart, fs)

\* C3 (completion order): when a call has returned, the content of the
\* graph (its paths, and the dependencies and inverseDependencies of each)
\* is the content that the fixed schedule of the same call, from the same
\* starting graph, source tree and paths, ends with: every interleaving of
\* the transform completions gives the same graph content.
C3_OrderIndependentContent ==
  (phase = "idle" /\ ~OneSchedule.overflow /\ OneSchedule.error = "none") =>
     Content(heap, graph) = Content(OneSchedule.heap, OneSchedule.graph)

\* C4 (rename cancellation): when a warm pass has returned, a path that
\* addDependency created during the pass and that removeDependency marked
\* deleted during the pass, and that was not a traversal root, is in neither
\* Result.added nor Result.deleted.
Cancelled == (Added \cap delta.deleted) \ Modified

C4_RenameCancellation ==
  WarmDone =>
    \A P \in Cancelled : result.added[P] = NoObj /\ P \notin result.deleted

C4_Witness == WarmDone /\ Cancelled # {}

\* C5 as the specification states it (dual membership): when a warm pass has
\* returned, a traversal root that was marked deleted during the pass is in
\* Result.deleted and also in Result.added, and every traversal root is in
\* Result.added.
C5_DualMembership ==
  WarmDone =>
    /\ \A P \in Modified \cap delta.deleted :
         P \in result.deleted /\ result.added[P] # NoObj
    /\ \A P \in Modified : result.added[P] # NoObj

\* C5 as amended: when a warm pass has returned, a traversal root that was
\* marked deleted during the pass is in Result.deleted and is not in
\* Result.added, and every traversal root that was not marked deleted is in
\* Result.added, mapped to the module object that was re-processed.
C5_ReplacedIdentity ==
  WarmDone =>
    /\ \A P \in Modified \cap delta.deleted :
         P \in result.deleted /\ result.added[P] = NoObj
    /\ \A P \in Modified \ delta.deleted :
         result.added[P] = delta.modified[P]

C5_Witness ==
  /\ WarmDone
  /\ Modified \cap delta.deleted # {}
  /\ Modified \ delta.deleted # {}

\* C6 (entry points are kept): whenever a call has returned, every entry
\* point has a module record in the graph and is not reported deleted.
C6_EntryPointsKept ==
  phase = "idle" =>
    \A i \in DOMAIN entryPoints :
      /\ entryPoints[i] \in GraphPaths(graph)
      /\ entryPoints[i] \notin result.deleted

\* The depth-first pre-order of the source tree from a list of paths: each
\* file's imports in declaration order, a path placed once, where it is first
\* met.
RECURSIVE Preorder(_, _, _)
Preorder(tree, pathList, placed) ==
  IF pathList = <<>> THEN placed
  ELSE Preorder(tree, Tail(pathList),
                IF Head(pathList) \in Range(placed) THEN placed
                ELSE Preorder(tree, Values(tree[Head(pathList)]),
                              Append(placed, Head(pathList))))

GraphOrder == [i \in DOMAIN graph |-> graph[i][1]]

\* C7 (linearization): when the cold start has returned, the iteration order
\* of graph.dependencies is the depth-first pre-order of the source tree from
\* the entry points in their declared order, whatever order the transforms
\* completed in; so the order and the added keys are a function of the source
\* tree and the entry points alone.
C7_LinearizedOrder ==
  ColdDone =>
    /\ GraphOrder = Preorder(fs, entryPoints, <<>>)
    /\ { p \in Paths : result.added[p] # NoObj }
         = Range(Preorder(fs, entryPoints, <<>>))

C7_Witness ==
  /\ ColdDone
  /\ entryPoints = <<"A">>
  /\ fs["A"] = <<Dep("b", "B"), Dep("c", "C")>>
  /\ fs["B"] = <<Dep("d", "D")>>
  /\ fs["C"] = <<Dep("d", "D")>>
  /\ GraphOrder = <<"A", "B", "D", "C">>
  /\ Module(heap, graph, "D").inverseDependencies = {"B", "C"}

\* C8 (progress monotonicity): over the onProgress callbacks of one call,
\* processedCount never decreases from one callback to the next and
\* totalDiscovered never decreases from one callback to the next.
C8_ProgressMonotone ==
  progress.processedMonotone /\ progress.totalMonotone

\* The processModule calls not yet finished that were started under the
\* traversal root r.
Unfinished(r) == { m \in DOMAIN procs : procs[m].root = r }

\* C9 (progress bound and completion): at every onProgress callback
\* processedCount <= totalDiscovered; while a call runs, every module
\* discovered under a traversal root and not yet finished is already counted
\* in that root's total (total = processed + unfinished); and the last
\* callback of a call that has returned has processedCount = totalDiscovered.
C9_ProgressBounded ==
  /\ progress.bounded
  /\ Running =>
       \A r \in DOMAIN counters :
         counters[r][2] = counters[r][1] + Cardinality(Unfinished(r))
  /\ (phase = "idle" /\ progress.called) =>
       progress.last[1] = progress.last[2]

C9_Witness ==
  /\ phase = "idle"
  /\ progress.called
  /\ progress.last[2] >= 3
  /\ progress.last[1] = progress.last[2]

\* The files reachable from a set of paths through resolved imports.
RECURSIVE Reachable(_, _)
Reachable(tree, set) ==
  LET next == set \cup UNION { Range(Values(tree[p])) : p \in set }
  IN  IF next = set THEN set ELSE Reachable(tree, next)

\* C10 (cold start result): when the cold start has returned, the graph
\* holds exactly the files reachable from the entry points, each with the
\* dependencies its source declares; Result.added is that whole graph and
\* Result.deleted is empty.
C10_ColdStartResult ==
  ColdDone =>
    /\ GraphPaths(graph) = Reachable(fs, Range(entryPoints))
    /\ \A p \in GraphPaths(graph) :
         /\ Module(heap, graph, p).dependencies = fs[p]
         /\ result.added[p] = GraphGet(graph, p)
    /\ \A p \in Paths \ GraphPaths(graph) : result.added[p] = NoObj
    /\ result.deleted = {}

C10_Witness ==
  /\ ColdDone
  /\ GraphPaths(graph) = {"A", "B", "C", "D"}
  /\ "A" \in Imports(Module(heap, graph, "B"))
  /\ "B" \in Imports(Module(heap, graph, "D"))

\* The changed paths of the call that had no record when it began.
AbsentPaths == Range(paths) \ PreGraph

\* C11 (missing changed path): in a traverse call, a changed path that had no
\* record when the call began is not marked modified, starts no
\* traverseDependenciesForSingleFile (no counters, no root processModule, so
\* no transform or resolve on its behalf: a processModule for it is one that
\* addDependency started for a parent); and a call whose changed paths were
\* all absent fails with nothing, starts no processModule, reports no
\* progress, leaves every module record and the graph as they were and
\* returns empty added and deleted.
C11_MissingPathNoOp ==
  passes > 0 =>
    /\ \A P \in AbsentPaths :
         /\ delta.modified[P] = NoObj
         /\ \A r \in DOMAIN counters : r[1] # P
         /\ \A m \in DOMAIN procs : m[1] = P => procs[m].parent # NoObj
    /\ Range(paths) \cap PreGraph = {} =>
         /\ phase # "failed"
         /\ error = "none"
         /\ procs = Empty
         /\ ~progress.called
         /\ delta = EmptyDelta
         /\ heap = pre.heap
         /\ \/ graph = pre.graph
            \/ /\ phase = "linearized"
               /\ graph = reorderGraph(heap, pre.graph, entryPoints)
         /\ phase # "warm" => result = NoResult

C11_Witness ==
  /\ WarmDone
  /\ Len(paths) = 2
  /\ Range(paths) \cap PreGraph = {}
  /\ GraphPaths(graph) # {}

\* The transform of module has resolved and one of its specifiers does not
\* resolve: the step of processModule that comes next throws.
ResolveFails(module) ==
  /\ module \in DOMAIN procs
  /\ procs[module].pc = "transform"
  /\ ~transformRejects(fs, module[1])
  /\ resolveThrows(fs, module[1], transform(fs, module[1]).dependencies)

\* C12 (resolution failure): the step in which a processModule call ends
\* because resolve threw leaves the call failed and changes no module record
\* (the module's dependencies and output, every inverseDependencies) and not
\* the graph.
C12_NoPartialEdge ==
  [][\A m \in DOMAIN procs :
       (ResolveFails(m) /\ m \notin DOMAIN procs')
         => (phase' = "failed" /\ error' # "none"
             /\ heap' = heap /\ graph' = graph)]_vars

C12_Witness ==
  /\ phase = "failed"
  /\ error = "resolve"
  /\ passes > 0
  /\ fs["B"] = <<Dep("d", "D"), Dep("m", NotFound)>>
  /\ "B" \in GraphPaths(graph)
  /\ Module(heap, graph, "B").dependencies = <<Dep("a", "A")>>
  /\ "D" \notin GraphPaths(graph)

\* The module objects the call has taken out of the graph.
Detached == DOMAIN heap \ Range(graph)

\* C13 (a referrer for every non-entry module): when a call has returned,
\* every module of the graph that is not an entry point has a non-empty
\* inverseDependencies, and every module object that was taken out of the
\* graph has an empty inverseDependencies and its path was marked deleted:
\* a record leaves the graph exactly when a removal empties its
\* inverseDependencies.
C13_NonEntryHasReferrer ==
  phase = "idle" =>
    /\ \A p \in GraphPaths(graph) \ Range(entryPoints) :
         Module(heap, graph, p).inverseDependencies # {}
    /\ \A o \in Detached :
         heap[o].inverseDependencies = {} /\ o[1] \in delta.deleted

C13_Witness ==
  /\ WarmDone
  /\ Detached # {}
  /\ \E p \in (GraphPaths(graph) \cap PreGraph) \ Range(entryPoints) :
       Cardinality(Module(heap, graph, p).inverseDependencies)
         < Cardinality(PreModule(p).inverseDependencies)

\* The module objects that were in the graph when the call began and are not
\* changed paths of the call.
Bystanders == { o \in DOMAIN pre.heap : o[1] \notin Range(paths) }

\* C14 (no re-transform): in a warm pass, a processModule call (and so a
\* transform) runs only on a changed path that had a record, for which it was
\* marked modified, or on a module object created during the pass; a module
\* that was in the graph before the pass and is not a changed path keeps its
\* output and its dependencies, whatever referrers it gains, and is not
\* recorded in delta.added.
C14_NoRetransform ==
  passes > 0 =>
    /\ \A m \in DOMAIN procs :
         m \in DOMAIN pre.heap =>
           (m[1] \in Range(paths) /\ delta.modified[m[1]] = m)
    /\ \A o \in Bystanders :
         /\ heap[o].output = pre.heap[o].output
         /\ heap[o].dependencies = pre.heap[o].dependencies
         /\ delta.added[o[1]] # o

C14_Witness ==
  /\ WarmDone
  /\ \E o \in Bystanders :
       /\ o \in Range(graph)
       /\ pre.heap[o].inverseDependencies # heap[o].inverseDependencies
       /\ pre.heap[o].inverseDependencies \subseteq heap[o].inverseDependencies

\* C15 (linearize only reorders): when a call has returned, reorderGraph
\* applied to the graph gives a Map with exactly the module objects the graph
\* holds (the same paths, each mapped to the same unchanged record): only
\* their order may differ.
C15_LinearizeOnlyReorders ==
  phase = "idle" =>
    Range(reorderGraph(heap, graph, entryPoints)) = Range(graph)

\* C16 (forward/inverse consistency): when a call has returned, every path a
\* module of the graph resolves a dependency to has a record in the graph
\* with that module among its inverseDependencies, and every path in the
\* inverseDependencies of a module of the graph has a record in the graph
\* that imports the module.
C16_EdgeConsistency ==
  phase = "idle" =>
    \A M \in GraphPaths(graph) :
      /\ \A D \in Imports(Module(heap, graph, M)) :
           /\ D \in GraphPaths(graph)
           /\ M \in Module(heap, graph, D).inverseDependencies
      /\ \A P \in Module(heap, graph, M).inverseDependencies :
           /\ P \in GraphPaths(graph)
           /\ M \in Imports(Module(heap, graph, P))

\* The keys of Result.added.
ResultAdded == { p \in Paths : result.added[p] # NoObj }

\* C17 (the Result describes the change): when a call has returned, the
\* paths of the graph are the paths it had when the call began, less
\* Result.deleted, plus the keys of Result.added; no path of Result.deleted
\* has a record in the graph, and every key of Result.added maps to the
\* record the graph holds for it.
C17_ResultDescribesChange ==
  phase = "idle" =>
    /\ GraphPaths(graph) = (PreGraph \ result.deleted) \cup ResultAdded
    /\ \A p \in result.deleted : p \notin GraphPaths(graph)
    /\ \A p \in ResultAdded : result.added[p] = GraphGet(graph, p)

\* C18 (failure aborts the pass): once the call has failed because a transform
\* was rejected or a resolve threw, no step changes a module record or the
\* graph.
C18_FailureAborts ==
  [][(phase = "failed" /\ error \in {"transform", "resolve"})
       => (heap' = heap /\ graph' = graph)]_vars

\* The paths of the graph that can be reached from a set of paths by
\* following the dependencies of the records of the graph.
RECURSIVE GraphReachable(_, _, _)
GraphReachable(h, g, set) ==
  LET next == set \cup UNION { Imports(Module(h, g, p)) \cap GraphPaths(g) :
                                p \in set }
  IN  IF next = set THEN set ELSE GraphReachable(h, g, next)

\* C19 (no unreachable garbage): when a call has returned, every module of
\* the graph can be reached from an entry point that is in the graph by
\* following dependencies.
C19_NoGarbage ==
  phase = "idle" =>
    GraphPaths(graph) =
      GraphReachable(heap, graph, Range(entryPoints) \cap GraphPaths(graph))

\* C20 (termination): no removal cascade enters again a module whose removal
\* is still in progress (a recursion that nothing but the RangeError of the
\* call stack ends); and a call that has not returned is never stuck: a
\* transform is pending, or a processModule call whose children are all done
\* can go on, or the call itself can return.
C20_Termination ==
  /\ error # "RangeError"
  /\ Running =>
       \/ DOMAIN procs = {}
       \/ \E m \in DOMAIN procs :
            \/ procs[m].pc = "transform"
            \/ \A o \in DOMAIN procs : procs[o].parent # m

====
